---- MODULE Spec2Model ----
(***************************************************************************)
(* A model of draughtsman-eventer: the informer's retry-wrapped boot       *)
(* sequence (bootstrap pass and steady-state pass), its merge function     *)
(* ensureProject, and the completion filters of the GitHub client.         *)
(*                                                                         *)
(* The specifications share the module's variables:                        *)
(*   SpecEnsure  sequences of ensureProject calls on a project list,       *)
(*   SpecFilter  the two completion filters applied to a deployment list,  *)
(*   Spec        Service.Boot with its state store, eventer and backoff,   *)
(*   SpecPoll    the polling loop of the GitHub eventer, the remote it     *)
(*               polls and the consumer of its channel; FairSpecPoll is    *)
(*               SpecPoll under fair scheduling,                           *)
(*   SpecOnce    goroutines calling Service.Boot on one informer,          *)
(*   SpecNew     the constructor New and its validation of the Config.     *)
(* Each one keeps the variables of the others at their initial values.     *)
(***************************************************************************)
EXTENDS Integers, Sequences, FiniteSets, TLC

VARIABLES
    \* ---- ensureProject driver (SpecEnsure)
    seed,          \* the project list the sequence of calls started from
    projects,      \* the list returned by the last ensureProject call
    project,       \* the candidate of the last call
    updated,       \* the boolean the last call returned
    prev,          \* the list the last call was given
    again,         \* TRUE when the last call repeated the candidate before it
    calls,         \* number of calls made
    \* ---- completion filters (SpecFilter)
    deployments,   \* the input list of deployments, statuses attached
    matches,       \* the list the last filter call returned
    filtered,      \* which filter ran last: "none", "byStatus", "withoutStatuses"
    \* ---- Service.Boot (Spec): configuration and collaborators
    backOff,       \* the backoff policy: "stop" or "maxTries"
    storeBroken,   \* TRUE: every call of the state store fails (testTPOController.Err)
    latest,        \* per configured project: what FetchLatest finds at the remote
    store,         \* the persisted TPO: [exists, projects]
    posted,        \* the events a pending status was posted for, in order
    exitCalls,     \* the codes the fatal-exit callback was invoked with
    \* ---- Service.Boot (Spec): the boot sequence
    pc,            \* where the boot sequence stands
    TPO,           \* the projects of the in-memory TPO of the running attempt
    pidx,          \* index of the project the bootstrap pass is at
    event,         \* the deployment event d being handled
    numTries,      \* tries counted by the backoff policy
    attempts,      \* bootWithError invocations
    getCalled,     \* tpo.Get invocations
    ensureCalled,  \* tpo.Ensure invocations
    \* ---- Service.Boot (Spec): the history the properties speak about
    seen,          \* the events handled so far: [phase, event]
    faults,        \* transient failures of a collaborator so far
    otherWrites,   \* writes of another writer to the store so far
    staleRead,     \* TRUE: another writer changed the store after the loop's last read
    pollers,       \* polling loops FetchContinuously has started; none of them ends
    persisted,     \* the entries of the objects persisted in the running attempt
    postedBefore,  \* how many pending statuses were posted before the running attempt
    absentAtGet,   \* the store reported NotFound on the read that began the running attempt
    \* ---- the polling loop (SpecPoll): the remote deployment API
    remote,        \* per project: its deployments, newest first, statuses attached
    version,       \* per project: how often its deployment list response changed
    remoteChanges, \* changes made at the remote by its other users so far
    \* ---- the polling loop (SpecPoll): the goroutine of NewDeploymentEvents
    etagMap,       \* per project: the stored Etag, NoHeader when the map has no entry
    ppc,           \* where the polling goroutine stands
    pproj,         \* index of the project the goroutine is at
    body,          \* the decoded response of the list request, statuses not yet fetched
    outbox,        \* the deployments still to be sent on the channel
    pfaults,       \* failed requests of the poller so far
    \* ---- the polling loop (SpecPoll): the consumer of the channel
    cevent,        \* the event the consumer received and has not handled yet
    desired,       \* the projects of the TPO the consumer persists
    \* ---- the polling loop (SpecPoll): the history the properties speak about
    lastPoll,      \* per project: the last finished fetchNewDeploymentEvents call
    \* ---- callers of Service.Boot (SpecOnce)
    bpc,           \* per caller: where it stands in Boot / sync.Once.Do
    bcalls,        \* per caller: the Boot calls it has made
    onceDone,      \* bootOnce: the done flag of the sync.Once
    onceM,         \* bootOnce: the caller that holds the mutex, 0 when it is free
    sequences,     \* how many times the retry-wrapped boot sequence was started
    \* ---- the constructor (SpecNew)
    config,        \* the Config handed to New
    newResult      \* what New returned, NoResult before the call

ensureVars == <<seed, projects, project, updated, prev, again, calls>>
filterVars == <<deployments, matches, filtered>>
bootVars == <<backOff, storeBroken, latest, store, posted, exitCalls, pc, TPO, pidx, event,
              numTries, attempts, getCalled, ensureCalled, seen, faults,
              otherWrites, staleRead, pollers, persisted, postedBefore,
              absentAtGet>>
pollVars == <<remote, version, remoteChanges, etagMap, ppc, pproj, body, outbox, pfaults,
              cevent, desired, lastPoll>>
onceVars == <<bpc, bcalls, onceDone, onceM, sequences>>
newVars == <<config, newResult>>
svcVars == <<onceVars, newVars>>
vars == <<ensureVars, filterVars, bootVars, pollVars, svcVars>>

-----------------------------------------------------------------------------
(* Bounds *)

MaxLen == 2            \* longest seed list handed to ensureProject
MaxCalls == 2          \* ensureProject calls per behaviour
MaxDeployments == 2    \* longest deployment list handed to a filter
MaxStatuses == 2       \* longest status history of one deployment
MaxEvents == 1         \* events the continuous stream delivers per behaviour
MaxFaults == 1         \* transient collaborator failures per behaviour
MaxOtherWrites == 1    \* writes of another writer per behaviour
MaxRecords == 2        \* deployments one project has at the remote
MaxRemoteChanges == 2  \* deployments and statuses other users create at the remote
MaxCallers == 3        \* goroutines that call Boot on one informer
MaxBootCalls == 2      \* Boot calls one goroutine makes, one after the other
MaxProjects == 2       \* longest project list of a Config

-----------------------------------------------------------------------------
(* Helpers *)

Range(s) == {s[i] : i \in 1..Len(s)}

SeqsUpTo(S, n) == UNION {[1..k -> S] : k \in 0..n}

Min(S) == CHOOSE x \in S : \A y \in S : x <= y

\* The names of a project list, as a sequence.
Names(ps) == [i \in 1..Len(ps) |-> ps[i].Name]

NameSet(ps) == {ps[i].Name : i \in 1..Len(ps)}

\* No two entries of the list have the same name.
UniqueNames(ps) == \A i, j \in 1..Len(ps) : ps[i].Name = ps[j].Name => i = j

-----------------------------------------------------------------------------
(* draughtsmantprspec.Project and the merge function *)

IDs == {"", "1", "2"}
ProjectNames == {"", "a", "b"}
Refs == {"", "r1", "r2"}

Project == [ID : IDs, Name : ProjectNames, Ref : Refs]

ValidProject == {p \in Project : p.ID # "" /\ p.Name # "" /\ p.Ref # ""}

\* Candidates handed to ensureProject: every valid project and one malformed
\* candidate per empty field.
Candidates ==
    ValidProject \cup {[ID |-> "", Name |-> "a", Ref |-> "r1"],
                       [ID |-> "1", Name |-> "", Ref |-> "r1"],
                       [ID |-> "1", Name |-> "a", Ref |-> ""]}

NoProject == [ID |-> "", Name |-> "", Ref |-> ""]

\* getProjectByName: the first entry with the name, or the notFoundError.
getProjectByName(ps, name) ==
    LET hits == {i \in 1..Len(ps) : ps[i].Name = name}
    IN  IF hits = {}
        THEN [err |-> "notFound", project |-> NoProject]
        ELSE [err |-> "nil", project |-> ps[Min(hits)]]

ensureProjectDup(ps, p) ==
    IF p.ID = "" \/ p.Name = "" \/ p.Ref = ""
    THEN [projects |-> ps, updated |-> FALSE]
    ELSE LET stale == {i \in 1..Len(ps) : ps[i].Name = p.Name /\ ps[i].Ref # p.Ref}
         IN  IF stale = {} /\ getProjectByName(ps, p.Name).err = "nil"
             THEN [projects |-> ps, updated |-> FALSE]
             ELSE [projects |-> Append(ps, p), updated |-> TRUE]

ensureProjectDrop(ps, p) ==
    IF p.ID = "" \/ p.Name = "" \/ p.Ref = ""
    THEN [projects |-> ps, updated |-> FALSE]
    ELSE IF getProjectByName(ps, p.Name).err = "notFound"
    THEN [projects |-> Append(ps, p), updated |-> TRUE]
    ELSE LET stale == {i \in 1..Len(ps) : ps[i].Name = p.Name /\ ps[i].Ref # p.Ref}
         IN  IF stale # {}
             THEN [projects |-> Append(SubSeq(ps, 1, Min(stale) - 1), p),
                   updated |-> TRUE]
             ELSE [projects |-> ps, updated |-> FALSE]

ensureProjectByID(ps, p) ==
    IF p.ID = "" \/ p.Name = "" \/ p.Ref = ""
    THEN [projects |-> ps, updated |-> FALSE]
    ELSE IF getProjectByName(ps, p.Name).err = "notFound"
    THEN [projects |-> Append(ps, p), updated |-> TRUE]
    ELSE LET stale == {i \in 1..Len(ps) : ps[i].Name = p.Name /\ ps[i].Ref # p.Ref}
         IN  IF stale # {}
             THEN [projects |-> [ps EXCEPT ![Min(stale)].ID = p.ID],
                   updated |-> TRUE]
             ELSE [projects |-> ps, updated |-> FALSE]

ensureProjectCompareID(ps, p) ==
    IF p.ID = "" \/ p.Name = "" \/ p.Ref = ""
    THEN [projects |-> ps, updated |-> FALSE]
    ELSE IF getProjectByName(ps, p.Name).err = "notFound"
    THEN [projects |-> Append(ps, p), updated |-> TRUE]
    ELSE LET stale == {i \in 1..Len(ps) : ps[i].Name = p.Name /\ ps[i] # p}
         IN  IF stale # {}
             THEN [projects |-> [ps EXCEPT ![Min(stale)] = p], updated |-> TRUE]
             ELSE [projects |-> ps, updated |-> FALSE]

ensureProjectNoGuard(ps, p) ==
    IF getProjectByName(ps, p.Name).err = "notFound"
    THEN [projects |-> Append(ps, p), updated |-> TRUE]
    ELSE LET stale == {i \in 1..Len(ps) : ps[i].Name = p.Name /\ ps[i].Ref # p.Ref}
         IN  IF stale # {}
             THEN [projects |-> [ps EXCEPT ![Min(stale)] = p], updated |-> TRUE]
             ELSE [projects |-> ps, updated |-> FALSE]

ensureProjectPrepend(ps, p) ==
    IF p.ID = "" \/ p.Name = "" \/ p.Ref = ""
    THEN [projects |-> ps, updated |-> FALSE]
    ELSE IF getProjectByName(ps, p.Name).err = "notFound"
    THEN [projects |-> <<p>> \o ps, updated |-> TRUE]
    ELSE LET stale == {i \in 1..Len(ps) : ps[i].Name = p.Name /\ ps[i].Ref # p.Ref}
         IN  IF stale # {}
             THEN [projects |-> [ps EXCEPT ![Min(stale)] = p], updated |-> TRUE]
             ELSE [projects |-> ps, updated |-> FALSE]

\* ensureProject: reject a candidate with an empty field; append a candidate
\* whose name is not in the list; otherwise replace the first entry that has
\* the name and another ref; otherwise leave the list alone.
ensureProject(ps, p) ==
    IF p.ID = "" \/ p.Name = "" \/ p.Ref = ""
    THEN [projects |-> ps, updated |-> FALSE]
    ELSE IF getProjectByName(ps, p.Name).err = "notFound"
    THEN [projects |-> Append(ps, p), updated |-> TRUE]
    ELSE LET stale == {i \in 1..Len(ps) : ps[i].Name = p.Name /\ ps[i].Ref # p.Ref}
         IN  IF stale # {}
             THEN [projects |-> [ps EXCEPT ![Min(stale)] = p], updated |-> TRUE]
             ELSE [projects |-> ps, updated |-> FALSE]

-----------------------------------------------------------------------------
(* Deployments and the completion filters of the GitHub client *)

pendingState == "pending"
successState == "success"
failureState == "failure"

States == {pendingState, successState, failureState}

\* A deployment as the filters see it: its id and its status history.
Deployment(id, statuses) == [ID |-> id, Statuses |-> statuses]

\* isPending of filterDeploymentsByStatus: the inner loop over the statuses
\* clears the flag at the first status that is not pending.
isPending(d) == \A k \in 1..Len(d.Statuses) : d.Statuses[k] = pendingState

isPendingLast(d) ==
    Len(d.Statuses) = 0 \/ d.Statuses[Len(d.Statuses)] = pendingState

filterDeploymentsByStatusLast(ds) == SelectSeq(ds, isPendingLast)

\* filterDeploymentsByStatus: walk the list in order and append to matches
\* every deployment whose statuses are all pending.
RECURSIVE filterDeploymentsByStatus(_)
filterDeploymentsByStatus(ds) ==
    IF ds = <<>> THEN <<>>
    ELSE IF isPending(Head(ds))
    THEN <<Head(ds)>> \o filterDeploymentsByStatus(Tail(ds))
    ELSE filterDeploymentsByStatus(Tail(ds))

filterDeploymentsWithoutStatusesPending(ds) == SelectSeq(ds, isPending)

filterDeploymentsKeepAll(ds) == ds

\* filterDeploymentsWithoutStatuses: walk the list in order, skip every
\* deployment with len(Statuses) != 0 and append the others to matches.
RECURSIVE filterDeploymentsWithoutStatuses(_)
filterDeploymentsWithoutStatuses(ds) ==
    IF ds = <<>> THEN <<>>
    ELSE IF Len(Head(ds).Statuses) # 0
    THEN filterDeploymentsWithoutStatuses(Tail(ds))
    ELSE <<Head(ds)>> \o filterDeploymentsWithoutStatuses(Tail(ds))

-----------------------------------------------------------------------------
(* The values each specification keeps the other specifications' variables at *)

NoEvent == [ID |-> 0, Name |-> "", Sha |-> ""]

EnsureIdle ==
    /\ seed = <<>>
    /\ projects = <<>>
    /\ project = NoProject
    /\ updated = FALSE
    /\ prev = <<>>
    /\ again = FALSE
    /\ calls = 0

FilterIdle ==
    /\ deployments = <<>>
    /\ matches = <<>>
    /\ filtered = "none"

BootIdle ==
    /\ backOff = "stop"
    /\ storeBroken = FALSE
    /\ latest = <<>>
    /\ store = [exists |-> FALSE, projects |-> <<>>]
    /\ posted = <<>>
    /\ exitCalls = <<>>
    /\ pc = "boot"
    /\ TPO = <<>>
    /\ pidx = 1
    /\ event = NoEvent
    /\ numTries = 0
    /\ attempts = 0
    /\ getCalled = 0
    /\ ensureCalled = 0
    /\ seen = <<>>
    /\ faults = 0
    /\ otherWrites = 0
    /\ staleRead = FALSE
    /\ pollers = 0
    /\ persisted = {}
    /\ postedBefore = 0
    /\ absentAtGet = FALSE

PollIdle ==
    /\ remote = <<>>
    /\ version = <<>>
    /\ remoteChanges = 0
    /\ etagMap = <<>>
    /\ ppc = "start"
    /\ pproj = 1
    /\ body = <<>>
    /\ outbox = <<>>
    /\ pfaults = 0
    /\ cevent = NoEvent
    /\ desired = <<>>
    /\ lastPoll = <<>>

\* New has not been called.
NoResult == [err |-> "none", service |-> "nil", environment |-> "", projects |-> <<>>]

SvcIdle ==
    /\ bpc = <<>>
    /\ bcalls = <<>>
    /\ onceDone = FALSE
    /\ onceM = 0
    /\ sequences = 0
    /\ config = <<>>
    /\ newResult = NoResult

-----------------------------------------------------------------------------
(* SpecEnsure: sequences of ensureProject calls *)

EnsureInit ==
    /\ seed \in SeqsUpTo(ValidProject, MaxLen)
    /\ projects = seed
    /\ project = NoProject
    /\ updated = FALSE
    /\ prev = seed
    /\ again = FALSE
    /\ calls = 0
    /\ FilterIdle
    /\ BootIdle
    /\ PollIdle
    /\ SvcIdle

\* projects, updated = ensureProject(projects, candidate)
Ensure(candidate, repeat) ==
    /\ calls < MaxCalls
    /\ LET r == ensureProject(projects, candidate)
       IN  /\ projects' = r.projects
           /\ updated' = r.updated
    /\ prev' = projects
    /\ project' = candidate
    /\ again' = repeat
    /\ calls' = calls + 1
    /\ UNCHANGED <<seed, filterVars, bootVars, pollVars,
                   svcVars>>

\* A call with a candidate of the caller's choice.
EnsureCandidate == \E c \in Candidates : Ensure(c, FALSE)

\* A second application: the call repeats the candidate of the call before it.
EnsureAgain ==
    /\ calls > 0
    /\ Ensure(project, TRUE)

EnsureNext == EnsureCandidate \/ EnsureAgain

SpecEnsure == EnsureInit /\ [][EnsureNext]_vars

-----------------------------------------------------------------------------
(* SpecFilter: the completion filters applied to a list of deployments *)

StatusLists == SeqsUpTo(States, MaxStatuses)

\* A list of deployments with the given status histories; the id of a
\* deployment is its place in the remote's list, so that the order of the
\* output can be told.
DeploymentList(ss) == [k \in 1..Len(ss) |-> Deployment(k, ss[k])]

FilterInit ==
    /\ \E n \in 0..MaxDeployments :
         \E ss \in [1..n -> StatusLists] : deployments = DeploymentList(ss)
    /\ matches = <<>>
    /\ filtered = "none"
    /\ EnsureIdle
    /\ BootIdle
    /\ PollIdle
    /\ SvcIdle

\* deployments = e.filterDeploymentsByStatus(deployments)
FilterByStatus ==
    /\ filtered = "none"
    /\ matches' = filterDeploymentsByStatus(deployments)
    /\ filtered' = "byStatus"
    /\ UNCHANGED <<deployments, ensureVars, bootVars, pollVars,
                   svcVars>>

\* deployments = e.filterDeploymentsWithoutStatuses(deployments)
FilterWithoutStatuses ==
    /\ filtered = "none"
    /\ matches' = filterDeploymentsWithoutStatuses(deployments)
    /\ filtered' = "withoutStatuses"
    /\ UNCHANGED <<deployments, ensureVars, bootVars, pollVars,
                   svcVars>>

\* The response the second block of fetchLatestDeploymentEvent reads from: the
\* first block assigns the response of e.request to a res of its own
\* (res, err := e.request(req) inside the braces), so the res declared before
\* the block is still nil when the second block reads res.Body.
outerRes == "nil"

\* fetchLatestDeploymentEvent once the remote has answered 200 with the list
\* ds (statuses attached): reading res.Body of a nil response panics; past
\* that, the finished deployments are filtered out, an empty rest is the
\* notFoundError and the first of the rest is returned.
fetchLatestDeploymentEvent(ds) ==
    IF outerRes = "nil"
    THEN [outcome |-> "panic", returned |-> <<>>]
    ELSE LET kept == filterDeploymentsByStatus(ds)
         IN  IF Len(kept) = 0
             THEN [outcome |-> "notFound", returned |-> <<>>]
             ELSE [outcome |-> "latest", returned |-> <<kept[1]>>]

\* d, err := e.fetchLatestDeploymentEvent(p, e.environment), the remote
\* answering 200 with the list.
FetchLatestDeploymentEvent ==
    /\ filtered = "none"
    /\ LET r == fetchLatestDeploymentEvent(deployments)
       IN  /\ matches' = r.returned
           /\ filtered' = r.outcome
    /\ UNCHANGED <<deployments, ensureVars, bootVars, pollVars,
                   svcVars>>

FilterNext == FilterByStatus \/ FilterWithoutStatuses \/ FetchLatestDeploymentEvent

SpecFilter == FilterInit /\ [][FilterNext]_vars

-----------------------------------------------------------------------------
(* Spec: Service.Boot, the retry envelope around bootWithError *)

\* s.projects and the deployment events of the remote.
ConfigProjects == <<"a", "b">>
EventIDs == {100, 101}
Shas == {"sha1", "sha2"}

\* The remote's deployments: project "a" is deployed at either revision under
\* either id, project "b" has one deployment.
DeploymentEvent ==
    {e \in [ID : EventIDs, Name : Range(ConfigProjects), Sha : Shas] :
        e.Name = "b" => (e.ID = 100 /\ e.Sha = "sha1")}

\* The newest deployment a project has at the remote when the service boots.
LatestEvent == {e \in DeploymentEvent : e.ID = 100 /\ e.Sha = "sha1"}

\* backoff.WithMaxTries(&backoff.ZeroBackOff{}, 3)
MaxTries == 3

\* strconv.Itoa for the ids the remote assigns (non-negative integers).
Digit(n) ==
    CASE n = 0 -> "0" [] n = 1 -> "1" [] n = 2 -> "2" [] n = 3 -> "3"
      [] n = 4 -> "4" [] n = 5 -> "5" [] n = 6 -> "6" [] n = 7 -> "7"
      [] n = 8 -> "8" [] n = 9 -> "9"

RECURSIVE Itoa(_)
Itoa(n) ==
    IF n < 0 THEN "-" \o Itoa(0 - n)
    ELSE IF n < 10 THEN Digit(n)
    ELSE Itoa(n \div 10) \o Digit(n % 10)

newProjectWithoutID(e) == [ID |-> "", Name |-> e.Name, Ref |-> e.Sha]

\* newProject := draughtsmantprspec.Project{ID: strconv.Itoa(d.ID), Name: d.Name, Ref: d.Sha}
newProject(e) == [ID |-> Itoa(e.ID), Name |-> e.Name, Ref |-> e.Sha]

\* What FetchLatest finds for a project: no deployment, or the newest one.
NotFound == [found |-> FALSE, event |-> NoEvent]
Found(e) == [found |-> TRUE, event |-> e]

\* What another writer of the TPO may store beside the informer's entries.
ForeignProject == [ID |-> "7", Name |-> "c", Ref |-> "sha7"]

BootInit ==
    /\ backOff \in {"stop", "maxTries"}
    /\ storeBroken \in BOOLEAN
    /\ latest \in [Range(ConfigProjects) -> {NotFound} \cup {Found(e) : e \in LatestEvent}]
    /\ \A p \in Range(ConfigProjects) : latest[p].found => latest[p].event.Name = p
    /\ store \in {[exists |-> FALSE, projects |-> <<>>],
                  [exists |-> TRUE, projects |-> <<>>]}
    /\ posted = <<>>
    /\ exitCalls = <<>>
    /\ pc = "boot"
    /\ TPO = <<>>
    /\ pidx = 1
    /\ event = NoEvent
    /\ numTries = 0
    /\ attempts = 0
    /\ getCalled = 0
    /\ ensureCalled = 0
    /\ seen = <<>>
    /\ faults = 0
    /\ otherWrites = 0
    /\ staleRead = FALSE
    /\ pollers = 0
    /\ persisted = {}
    /\ postedBefore = 0
    /\ absentAtGet = FALSE
    /\ EnsureIdle
    /\ FilterIdle
    /\ PollIdle
    /\ SvcIdle

\* A collaborator may fail transiently; the model bounds how often.
MayFail == faults < MaxFaults

FailAttemptSwallowed ==
    /\ pc' = "open"
    /\ UNCHANGED <<TPO, pidx, event, store, posted, seen, staleRead,
                   pollers, persisted, postedBefore, absentAtGet>>

\* return microerror.Mask(err): the attempt ends with an error.
FailAttempt ==
    /\ pc' = "failed"
    /\ UNCHANGED <<TPO, pidx, event, store, posted, seen, staleRead,
                   pollers, persisted, postedBefore, absentAtGet>>

\* Boot: bootOnce.Do runs backoff.RetryNotify(o, s.backOff, n), whose first
\* step is the first call of the operation.
Boot ==
    /\ pc = "boot"
    /\ pc' = "get"
    /\ attempts' = attempts + 1
    /\ UNCHANGED <<backOff, storeBroken, latest, store, posted, exitCalls, TPO, pidx,
                   event, numTries, getCalled, ensureCalled, seen, faults,
                   otherWrites, staleRead, ensureVars, filterVars, pollVars,
                   pollers, persisted, postedBefore, absentAtGet,
                   svcVars>>

NextProjectBreak == pidx' = pidx /\ pc' = "open"

\* The bootstrap pass goes on to the next project, or, after the last one,
\* to FetchContinuously.
NextProject ==
    IF pidx < Len(ConfigProjects)
    THEN pidx' = pidx + 1 /\ pc' = "latest"
    ELSE pidx' = pidx /\ pc' = "open"

continueNever(changed) == FALSE

\* if !updated { continue }: an event whose merge changed nothing is done
\* with, nothing is persisted and no status is posted for it.
continueUnchanged(changed) == ~changed

GetAtBootKeepsOld == IF store.exists THEN store.projects ELSE TPO

\* The projects of the object the attempt starts from: the stored ones, or,
\* when the store reports NotFound or hands back nil, those of a new empty
\* object (TPO = &draughtsmantpr.CustomObject{}).
GetAtBoot == IF store.exists THEN store.projects ELSE <<>>

\* bootWithError, first block: TPO, err = s.tpo.Get().  NotFound and a nil
\* object start the attempt from an empty object, another error ends it.
GetTPO ==
    /\ pc = "get"
    /\ getCalled' = getCalled + 1
    /\ \/ /\ storeBroken
          /\ FailAttempt
          /\ UNCHANGED faults
       \/ /\ ~storeBroken
          /\ MayFail
          /\ faults' = faults + 1
          /\ FailAttempt
       \/ /\ ~storeBroken
          /\ TPO' = GetAtBoot
          /\ absentAtGet' = ~store.exists
          /\ staleRead' = FALSE
          /\ pidx' = 1
          /\ pc' = "latest"
          /\ UNCHANGED <<event, store, posted, seen, faults,
                   pollers, persisted, postedBefore>>
    /\ UNCHANGED <<backOff, storeBroken, latest, exitCalls, numTries, attempts,
                   ensureCalled, otherWrites, ensureVars, filterVars, pollVars,
                   svcVars>>

\* bootWithError, bootstrap pass: d, err := s.eventer.FetchLatest(p, ...),
\* then the merge of the event into the in-memory TPO.
FetchLatest ==
    /\ pc = "latest"
    /\ LET p == ConfigProjects[pidx]
       IN  \/ /\ MayFail
              /\ faults' = faults + 1
              /\ FailAttempt
           \/ /\ ~latest[p].found
              /\ NextProject
              /\ UNCHANGED <<TPO, event, seen, faults, store, posted, staleRead,
                   pollers, persisted, postedBefore, absentAtGet>>
           \/ /\ latest[p].found
              /\ LET e == latest[p].event
                     r == ensureProject(TPO, newProject(e))
                 IN  /\ event' = e
                     /\ seen' = Append(seen, [phase |-> "bootstrap", event |-> e])
                     /\ TPO' = r.projects
                     /\ IF continueUnchanged(r.updated)
                        THEN NextProject
                        ELSE pc' = "ensure" /\ pidx' = pidx
              /\ UNCHANGED <<faults, store, posted, staleRead, pollers, persisted,
                             postedBefore, absentAtGet>>
    /\ UNCHANGED <<backOff, storeBroken, latest, exitCalls, numTries, attempts,
                   getCalled, ensureCalled, otherWrites, ensureVars, filterVars, pollVars,
                   svcVars>>

PersistErrorIgnored(next) ==
    /\ pc' = next
    /\ UNCHANGED <<TPO, pidx, event, store, posted, seen, staleRead, pollers,
                   persisted, postedBefore, absentAtGet>>

\* err = s.tpo.Ensure(TPO); if err != nil { return microerror.Mask(err) }
PersistError(next) == FailAttempt

\* s.tpo.Ensure(TPO): create the object or replace it by the in-memory one.
Persist(next) ==
    /\ ensureCalled' = ensureCalled + 1
    /\ \/ /\ storeBroken
          /\ PersistError(next)
          /\ UNCHANGED faults
       \/ /\ ~storeBroken
          /\ MayFail
          /\ faults' = faults + 1
          /\ PersistError(next)
       \/ /\ ~storeBroken
          /\ store' = [exists |-> TRUE, projects |-> TPO]
          /\ persisted' = persisted \cup Range(TPO)
          /\ staleRead' = FALSE
          /\ pc' = next
          /\ UNCHANGED <<TPO, pidx, event, posted, seen, faults, pollers,
                         postedBefore, absentAtGet>>
    /\ UNCHANGED <<backOff, storeBroken, latest, exitCalls, numTries, attempts,
                   getCalled, otherWrites, ensureVars, filterVars, pollVars,
                   svcVars>>

\* bootWithError, bootstrap pass: err = s.tpo.Ensure(TPO)
EnsureTPO ==
    /\ pc = "ensure"
    /\ Persist("status")

\* bootWithError, bootstrap pass: err = s.eventer.SetPendingStatus(d)
SetPendingStatus ==
    /\ pc = "status"
    /\ \/ /\ MayFail
          /\ faults' = faults + 1
          /\ FailAttempt
       \/ /\ posted' = Append(posted, event)
          /\ NextProject
          /\ UNCHANGED <<TPO, event, store, seen, faults, staleRead,
                   pollers, persisted, postedBefore, absentAtGet>>
    /\ UNCHANGED <<backOff, storeBroken, latest, exitCalls, numTries, attempts,
                   getCalled, ensureCalled, otherWrites, ensureVars, filterVars, pollVars,
                   svcVars>>

\* bootWithError, steady-state pass: s.eventer.FetchContinuously(...)
FetchContinuously ==
    /\ pc = "open"
    /\ \/ /\ MayFail
          /\ faults' = faults + 1
          /\ FailAttempt
       \/ /\ pc' = "recv"
          /\ pollers' = pollers + 1
          /\ UNCHANGED <<TPO, pidx, event, store, posted, seen, faults, staleRead,
                         persisted, postedBefore, absentAtGet>>
    /\ UNCHANGED <<backOff, storeBroken, latest, exitCalls, numTries, attempts,
                   getCalled, ensureCalled, otherWrites, ensureVars, filterVars, pollVars,
                   svcVars>>

\* Events the continuous stream has delivered.
Delivered == Cardinality({k \in 1..Len(seen) : seen[k].phase = "continuous"})

\* for d := range deploymentEventChannel: the next event arrives.
Receive ==
    /\ pc = "recv"
    /\ Delivered < MaxEvents
    /\ \E e \in DeploymentEvent :
         /\ event' = e
         /\ seen' = Append(seen, [phase |-> "continuous", event |-> e])
    /\ pc' = "cget"
    /\ UNCHANGED <<backOff, storeBroken, latest, store, posted, exitCalls, TPO, pidx,
                   numTries, attempts, getCalled, ensureCalled, faults,
                   otherWrites, staleRead, pollers, persisted, postedBefore,
                   absentAtGet, ensureVars, filterVars, pollVars,
                   svcVars>>

StreamClosedIsError ==
    /\ pc = "recv"
    /\ pc' = "failed"
    /\ UNCHANGED <<backOff, storeBroken, latest, store, posted, exitCalls, TPO, pidx,
                   event, numTries, attempts, getCalled, ensureCalled, seen,
                   faults, otherWrites, staleRead, ensureVars, filterVars, pollVars,
                   pollers, persisted, postedBefore, absentAtGet,
                   svcVars>>

\* for d := range deploymentEventChannel: the channel is closed, the range
\* ends and bootWithError returns nil, so RetryNotify and Boot return.
StreamClosed ==
    /\ pc = "recv"
    /\ pc' = "done"
    /\ UNCHANGED <<backOff, storeBroken, latest, store, posted, exitCalls, TPO, pidx,
                   event, numTries, attempts, getCalled, ensureCalled, seen,
                   faults, otherWrites, staleRead, ensureVars, filterVars, pollVars,
                   pollers, persisted, postedBefore, absentAtGet,
                   svcVars>>

GetForEventCached == TPO

\* The projects of the object s.tpo.Get() hands to the steady-state pass: the
\* stored ones, read anew for every event.
GetForEvent == store.projects

\* bootWithError, steady-state pass: TPO, err := s.tpo.Get(), where every
\* error, NotFound too, ends the attempt; then the merge of the event.
GetTPOForEvent ==
    /\ pc = "cget"
    /\ getCalled' = getCalled + 1
    /\ \/ /\ MayFail
          /\ faults' = faults + 1
          /\ FailAttempt
       \/ /\ ~store.exists
          /\ FailAttempt
          /\ UNCHANGED faults
       \/ /\ store.exists
          /\ LET r == ensureProject(GetForEvent, newProject(event))
             IN  /\ TPO' = r.projects
                 /\ pc' = IF continueUnchanged(r.updated) THEN "recv" ELSE "censure"
          /\ staleRead' = FALSE
          /\ UNCHANGED <<pidx, event, store, posted, seen, faults,
                   pollers, persisted, postedBefore, absentAtGet>>
    /\ UNCHANGED <<backOff, storeBroken, latest, exitCalls, numTries, attempts,
                   ensureCalled, otherWrites, ensureVars, filterVars, pollVars,
                   svcVars>>

\* bootWithError, steady-state pass: err = s.tpo.Ensure(TPO)
EnsureTPOForEvent ==
    /\ pc = "censure"
    /\ Persist("cstatus")

\* bootWithError, steady-state pass: err = s.eventer.SetPendingStatus(d)
SetPendingStatusForEvent ==
    /\ pc = "cstatus"
    /\ \/ /\ MayFail
          /\ faults' = faults + 1
          /\ FailAttempt
       \/ /\ posted' = Append(posted, event)
          /\ pc' = "recv"
          /\ UNCHANGED <<TPO, pidx, event, store, seen, faults, staleRead,
                   pollers, persisted, postedBefore, absentAtGet>>
    /\ UNCHANGED <<backOff, storeBroken, latest, exitCalls, numTries, attempts,
                   getCalled, ensureCalled, otherWrites, ensureVars, filterVars, pollVars,
                   svcVars>>

RetriesOffByOne == IF backOff = "stop" THEN 0 ELSE MaxTries - 1

\* The retries the policy permits: StopBackOff none, WithMaxTries MaxTries.
Retries == IF backOff = "stop" THEN 0 ELSE MaxTries

NextBackOffStopsEarly == numTries + 1 >= Retries

\* b.NextBackOff() = backoff.Stop: StopBackOff always stops, WithMaxTries
\* stops once numTries has reached the maximum.
NextBackOffStops == numTries >= Retries

\* backoff.RetryNotify after a failed operation: stop and return the error
\* when the policy says so, else notify, sleep and call the operation again.
RetryNotify ==
    /\ pc = "failed"
    /\ IF NextBackOffStops
       THEN /\ pc' = "exhausted"
            /\ UNCHANGED <<numTries, attempts, persisted, postedBefore, absentAtGet>>
       ELSE /\ numTries' = numTries + 1
            /\ attempts' = attempts + 1
            /\ persisted' = {}
            /\ postedBefore' = Len(posted)
            /\ pc' = "get"
            /\ UNCHANGED absentAtGet
    /\ UNCHANGED <<backOff, storeBroken, latest, store, posted, exitCalls, TPO, pidx,
                   event, getCalled, ensureCalled, seen, faults, otherWrites,
                   staleRead, pollers, ensureVars, filterVars, pollVars,
                   svcVars>>

\* Boot after RetryNotify returned an error: the error is logged and the
\* configured fatal-exit callback is invoked with a non-zero code.
ExitFunc ==
    /\ pc = "exhausted"
    /\ exitCalls' = Append(exitCalls, 1)
    /\ pc' = "done"
    /\ UNCHANGED <<backOff, storeBroken, latest, store, posted, TPO, pidx, event,
                   numTries, attempts, getCalled, ensureCalled, seen, faults,
                   otherWrites, staleRead, ensureVars, filterVars, pollVars,
                   pollers, persisted, postedBefore, absentAtGet,
                   svcVars>>

\* Another writer of the TPO adds its own project to the stored object.
OtherWriterAdds ==
    /\ otherWrites < MaxOtherWrites
    /\ store' = [exists |-> TRUE, projects |-> Append(store.projects, ForeignProject)]
    /\ otherWrites' = otherWrites + 1
    /\ staleRead' = TRUE
    /\ UNCHANGED <<backOff, storeBroken, latest, posted, exitCalls, pc, TPO, pidx,
                   event, numTries, attempts, getCalled, ensureCalled, seen,
                   faults, ensureVars, filterVars, pollVars,
                   pollers, persisted, postedBefore, absentAtGet,
                   svcVars>>

\* Another writer deletes the stored object.
OtherWriterDeletes ==
    /\ otherWrites < MaxOtherWrites
    /\ store.exists
    /\ store' = [exists |-> FALSE, projects |-> <<>>]
    /\ otherWrites' = otherWrites + 1
    /\ staleRead' = TRUE
    /\ UNCHANGED <<backOff, storeBroken, latest, posted, exitCalls, pc, TPO, pidx,
                   event, numTries, attempts, getCalled, ensureCalled, seen,
                   faults, ensureVars, filterVars, pollVars,
                   pollers, persisted, postedBefore, absentAtGet,
                   svcVars>>

\* The steps of the boot sequence itself.
LoopStep ==
    \/ Boot
    \/ GetTPO
    \/ FetchLatest
    \/ EnsureTPO
    \/ SetPendingStatus
    \/ FetchContinuously
    \/ Receive
    \/ StreamClosed
    \/ GetTPOForEvent
    \/ EnsureTPOForEvent
    \/ SetPendingStatusForEvent
    \/ RetryNotify
    \/ ExitFunc

Next == LoopStep \/ OtherWriterAdds \/ OtherWriterDeletes

Spec == BootInit /\ [][Next]_vars

\* The steps the goroutine that runs Boot takes on its own: all of its steps
\* but the receive from the channel, which waits for the event source to
\* send an event or to close the channel.
LoopOwnStep ==
    \/ Boot
    \/ GetTPO
    \/ FetchLatest
    \/ EnsureTPO
    \/ SetPendingStatus
    \/ FetchContinuously
    \/ GetTPOForEvent
    \/ EnsureTPOForEvent
    \/ SetPendingStatusForEvent
    \/ RetryNotify
    \/ ExitFunc

\* The goroutine that runs Boot is scheduled whenever it can take a step of
\* its own; the event source and the other writers of the store act or not
\* as they please.
FairSpec == Spec /\ WF_vars(LoopOwnStep)

-----------------------------------------------------------------------------
(* SpecOnce: goroutines that call Service.Boot, which runs the retry-wrapped *)
(* boot sequence inside s.bootOnce.Do                                        *)

Callers == 1..MaxCallers

OnceInit ==
    /\ bpc = [c \in Callers |-> "idle"]
    /\ bcalls = [c \in Callers |-> 0]
    /\ onceDone = FALSE
    /\ onceM = 0
    /\ sequences = 0
    /\ config = <<>>
    /\ newResult = NoResult
    /\ EnsureIdle
    /\ FilterIdle
    /\ BootIdle
    /\ PollIdle

onceRunsAlways(done) == TRUE

\* bootOnce.Do(f) calls f only while the Once is not done.
onceRuns(done) == ~done

\* The steps of Boot leave everything else alone.
OnceFrame == UNCHANGED <<newVars, ensureVars, filterVars, bootVars, pollVars>>

\* A goroutine calls s.Boot().
CallBoot(c) ==
    /\ bpc[c] = "idle"
    /\ bcalls[c] < MaxBootCalls
    /\ bcalls' = [bcalls EXCEPT ![c] = @ + 1]
    /\ bpc' = [bpc EXCEPT ![c] = "load"]
    /\ UNCHANGED <<onceDone, onceM, sequences>>
    /\ OnceFrame

\* bootOnce.Do, fast path: a caller that sees the Once done returns at once.
OnceLoad(c) ==
    /\ bpc[c] = "load"
    /\ bpc' = [bpc EXCEPT ![c] = IF onceRuns(onceDone) THEN "lock" ELSE "idle"]
    /\ UNCHANGED <<bcalls, onceDone, onceM, sequences>>
    /\ OnceFrame

\* bootOnce.Do, slow path: the caller waits for the mutex of the Once.
OnceLock(c) ==
    /\ bpc[c] = "lock"
    /\ onceM = 0
    /\ onceM' = c
    /\ bpc' = [bpc EXCEPT ![c] = "check"]
    /\ UNCHANGED <<bcalls, onceDone, sequences>>
    /\ OnceFrame

\* bootOnce.Do, slow path, mutex held: run the function when the Once is
\* still not done, which starts backoff.RetryNotify(o, s.backOff, n); else
\* unlock and return.
OnceCheck(c) ==
    /\ bpc[c] = "check"
    /\ IF onceRuns(onceDone)
       THEN /\ sequences' = sequences + 1
            /\ bpc' = [bpc EXCEPT ![c] = "running"]
            /\ UNCHANGED onceM
       ELSE /\ onceM' = 0
            /\ bpc' = [bpc EXCEPT ![c] = "idle"]
            /\ UNCHANGED sequences
    /\ UNCHANGED <<bcalls, onceDone>>
    /\ OnceFrame

\* RetryNotify returns (the stream was closed, or the retries are used up):
\* the Once is marked done, the mutex released, Boot returns.
BootReturns(c) ==
    /\ bpc[c] = "running"
    /\ onceDone' = TRUE
    /\ onceM' = 0
    /\ bpc' = [bpc EXCEPT ![c] = "idle"]
    /\ UNCHANGED <<bcalls, sequences>>
    /\ OnceFrame

OnceNext ==
    \/ \E c \in Callers : CallBoot(c)
    \/ \E c \in Callers : OnceLoad(c)
    \/ \E c \in Callers : OnceLock(c)
    \/ \E c \in Callers : OnceCheck(c)
    \/ \E c \in Callers : BootReturns(c)

SpecOnce == OnceInit /\ [][OnceNext]_vars

-----------------------------------------------------------------------------
(* SpecNew: the constructor of the informer *)

\* A dependency of the Config is nil or set.
Dependency == {"nil", "set"}

\* The Configs handed to New: every dependency nil or set, the environment
\* empty or not, the projects a list (nil is the empty list) whose items may
\* be empty strings.
Configs ==
    [BackOff : Dependency, Eventer : Dependency, Logger : Dependency,
     TPO : Dependency, Environment : {"", "production"},
     Projects : SeqsUpTo({"", "a", "b"}, MaxProjects)]

NewInit ==
    /\ config \in Configs
    /\ newResult = NoResult
    /\ bpc = <<>>
    /\ bcalls = <<>>
    /\ onceDone = FALSE
    /\ onceM = 0
    /\ sequences = 0
    /\ EnsureIdle
    /\ FilterIdle
    /\ BootIdle
    /\ PollIdle

containsEmptyItemsFirst(ps) == Len(ps) > 0 /\ ps[1] = ""

\* containsEmptyItems: some item of the list is the empty string.
containsEmptyItems(ps) == \E k \in 1..Len(ps) : ps[k] = ""

\* return nil, microerror.Maskf(invalidConfigError, ...)
InvalidConfig == [err |-> "invalidConfigError", service |-> "nil",
                  environment |-> "", projects |-> <<>>]

\* New: the dependencies are checked first, then the settings; a valid
\* Config gives a Service that holds the environment and the projects.
New(c) ==
    IF c.BackOff = "nil" THEN InvalidConfig
    ELSE IF c.Eventer = "nil" THEN InvalidConfig
    ELSE IF c.Logger = "nil" THEN InvalidConfig
    ELSE IF c.TPO = "nil" THEN InvalidConfig
    ELSE IF c.Environment = "" THEN InvalidConfig
    ELSE IF Len(c.Projects) = 0 \/ containsEmptyItems(c.Projects) THEN InvalidConfig
    ELSE [err |-> "nil", service |-> "set",
          environment |-> c.Environment, projects |-> c.Projects]

\* newInformer, err := New(config)
CallNew ==
    /\ newResult = NoResult
    /\ newResult' = New(config)
    /\ UNCHANGED <<config, onceVars, ensureVars, filterVars, bootVars, pollVars>>

NewNext == CallNew

SpecNew == NewInit /\ [][NewNext]_vars

-----------------------------------------------------------------------------
(* SpecPoll: the polling loop of NewDeploymentEvents, the remote deployment *)
(* API it polls with fetchNewDeploymentEvents, and the consumer that merges *)
(* the events of the channel into the persisted projects                    *)

\* e.projectList
projectList == ConfigProjects

\* The Etag header of the list response of a project: it changes whenever the
\* response changes.
Etag(v) == "etag-" \o Itoa(v)

\* A request without the If-None-Match header: etagMap has no entry.
NoHeader == "none"

\* The header of a response that carries no Etag: resp.Header.Get gives "".
EmptyEtag == ""

NoBody == [version |-> 0, deployments |-> <<>>]

\* One finished call of fetchNewDeploymentEvents: what it returned ("ok" with
\* deployments, "notFound", "error") and the version the remote's list had
\* when the list request was made.
PollLog(outcome, v) == [outcome |-> outcome, version |-> v]

NoPoll == PollLog("none", 0)

\* The ids the remote has assigned; the next one follows them.
RemoteIDs == UNION {{remote[p][k].ID : k \in 1..Len(remote[p])} : p \in Range(projectList)}

NextID == 100 + Cardinality(RemoteIDs)

\* The status history the remote holds for a deployment of a project.
StatusesOf(p, id) ==
    LET k == CHOOSE k \in 1..Len(remote[p]) : remote[p][k].ID = id
    IN  remote[p][k].Statuses

\* The deployments of a project that are finished at the remote: at least one
\* of their statuses is not pending.
RemoteFinished(p) ==
    {remote[p][k].ID : k \in {j \in 1..Len(remote[p]) :
        \E n \in 1..Len(remote[p][j].Statuses) : remote[p][j].Statuses[n] # pendingState}}

\* deployment.DeploymentEvent(project)
ToDeploymentEvent(p, d) == [ID |-> d.ID, Name |-> p, Sha |-> d.Sha]

PollInit ==
    /\ remote = [p \in Range(projectList) |-> <<>>]
    /\ version = [p \in Range(projectList) |-> 0]
    /\ remoteChanges = 0
    /\ etagMap = [p \in Range(projectList) |-> NoHeader]
    /\ ppc = "start"
    /\ pproj = 1
    /\ body = NoBody
    /\ outbox = <<>>
    /\ pfaults = 0
    /\ cevent = NoEvent
    /\ desired = <<>>
    /\ lastPoll = [p \in Range(projectList) |-> NoPoll]
    /\ EnsureIdle
    /\ FilterIdle
    /\ BootIdle
    /\ SvcIdle

\* A request of the poller may fail; the model bounds how often.
PollMayFail == pfaults < MaxFaults

\* The request failed: one more failure is counted.
PollFailed == pfaults' = pfaults + 1

\* NewDeploymentEvents: the channel and the ticker are made and the goroutine
\* starts with an empty etagMap.  The for statement runs its body before it
\* waits for the ticker the first time.
NewDeploymentEvents ==
    /\ ppc = "start"
    /\ ppc' = "fetch"
    /\ pproj' = 1
    /\ etagMap' = [p \in Range(projectList) |-> NoHeader]
    /\ UNCHANGED <<remote, version, remoteChanges, body, outbox, pfaults, cevent,
                   desired, lastPoll, ensureVars,
                   filterVars, bootVars,
                   svcVars>>

\* for c := ticker.C; ; <-c: the ticker fires and the projects are walked again.
Tick ==
    /\ ppc = "tick"
    /\ ppc' = "fetch"
    /\ pproj' = 1
    /\ UNCHANGED <<remote, version, remoteChanges, etagMap, body, outbox, pfaults,
                   cevent, desired, lastPoll, ensureVars,
                   filterVars, bootVars,
                   svcVars>>

NextPollProjectRestarts == pproj' = 1 /\ ppc' = "fetch"

\* for _, project := range e.projectList: on to the next project, or, after
\* the last one, to the wait for the ticker.
NextPollProject ==
    IF pproj < Len(projectList)
    THEN pproj' = pproj + 1 /\ ppc' = "fetch"
    ELSE pproj' = 1 /\ ppc' = "tick"

ReturnOnFetchError == pproj' = 1 /\ ppc' = "tick"

\* if err != nil { e.logger.Log("error", ...) }: the error is logged, the
\* range over the nil result sends nothing and the loop goes on with the
\* next project.
LogFetchError == NextPollProject

\* The call for project p has returned: it becomes the last finished call.
Logged(p, entry) == lastPoll' = [lastPoll EXCEPT ![p] = entry]

NotModifiedReturnsNil == "nil"

\* if resp.StatusCode == http.StatusNotModified: return nil,
\* microerror.Mask(notFoundError)
NotModifiedReturns == "notFound"

SaveEtagNever(p, token) == etagMap

\* etagMap[project] = resp.Header.Get(etagHeader)
SaveEtag(p, token) == [etagMap EXCEPT ![p] = token]

\* fetchNewDeploymentEvents up to the decoded list: the request carries
\* If-None-Match when etagMap has the project; a failed request returns
\* before the Etag is saved; every response saves its Etag; 304 returns
\* notFoundError, another status than 200 returns unexpectedStatusCode.
FetchDeployments ==
    /\ ppc = "fetch"
    /\ LET p == projectList[pproj]
           sent == etagMap[p]
       IN  \/ /\ PollMayFail
              /\ PollFailed
              /\ Logged(p, PollLog("error", version[p]))
              /\ LogFetchError
              /\ UNCHANGED <<etagMap, body>>
           \/ /\ PollMayFail
              /\ PollFailed
              /\ etagMap' = SaveEtag(p, EmptyEtag)
              /\ Logged(p, PollLog("error", version[p]))
              /\ LogFetchError
              /\ UNCHANGED body
           \/ /\ sent = Etag(version[p])
              /\ etagMap' = SaveEtag(p, Etag(version[p]))
              /\ Logged(p, PollLog(NotModifiedReturns, version[p]))
              /\ NextPollProject
              /\ UNCHANGED <<pfaults, body>>
           \/ /\ sent # Etag(version[p])
              /\ etagMap' = SaveEtag(p, Etag(version[p]))
              /\ body' = [version |-> version[p],
                          deployments |-> [k \in 1..Len(remote[p]) |->
                              [remote[p][k] EXCEPT !.Statuses = <<>>]]]
              /\ ppc' = "statuses"
              /\ UNCHANGED <<pproj, pfaults, lastPoll>>
    /\ UNCHANGED <<remote, version, remoteChanges, outbox, cevent, desired,
                   ensureVars, filterVars, bootVars,
                   svcVars>>

EmptyReturnsNil == "ok"

\* if len(deployments) == 0 { return nil, microerror.Mask(notFoundError) }
EmptyReturns == "notFound"

StatusErrorReturnsFetched(ds) == ds

\* deploymentStatuses, err := e.fetchDeploymentStatus(project, deployment);
\* if err != nil { return nil, microerror.Mask(err) }: no deployment is
\* returned, whatever was fetched before the failing request.
StatusErrorReturns(ds) == <<>>

\* fetchNewDeploymentEvents from the status requests on: the statuses of
\* every deployment are fetched, the first failure returns the error; the
\* deployments with statuses are filtered out; an empty rest returns
\* notFoundError.  The loop logs an error and sends what was returned.
FetchDeploymentStatuses ==
    /\ ppc = "statuses"
    /\ LET p == projectList[pproj]
           ds == [k \in 1..Len(body.deployments) |->
                     [body.deployments[k] EXCEPT
                         !.Statuses = StatusesOf(p, body.deployments[k].ID)]]
           kept == filterDeploymentsWithoutStatuses(ds)
       IN  \/ /\ body.deployments # <<>>
              /\ PollMayFail
              /\ PollFailed
              /\ Logged(p, PollLog("error", body.version))
              /\ outbox' = StatusErrorReturns(kept)
              /\ IF outbox' = <<>>
                 THEN LogFetchError
                 ELSE ppc' = "send" /\ pproj' = pproj
           \/ /\ IF kept = <<>>
                 THEN /\ Logged(p, PollLog(EmptyReturns, body.version))
                      /\ NextPollProject
                      /\ outbox' = <<>>
                 ELSE /\ Logged(p, PollLog("ok", body.version))
                      /\ outbox' = kept
                      /\ ppc' = "send"
                      /\ pproj' = pproj
              /\ UNCHANGED pfaults
    /\ body' = NoBody
    /\ UNCHANGED <<remote, version, remoteChanges, etagMap, cevent, desired,
                   ensureVars, filterVars, bootVars,
                   svcVars>>

ChannelBuffered == TRUE

\* deploymentEventChannel := make(chan eventerspec.DeploymentEvent): the
\* channel has no buffer, so a send goes through only when the consumer is at
\* its receive, that is, holds no event it is still handling.
ChannelReady == cevent = NoEvent

\* deploymentEventChannel <- deployment.DeploymentEvent(project): the channel
\* has no buffer, the send ends when the consumer takes the event.
Send ==
    /\ ppc = "send"
    /\ ChannelReady
    /\ cevent' = ToDeploymentEvent(projectList[pproj], Head(outbox))
    /\ outbox' = Tail(outbox)
    /\ IF Tail(outbox) = <<>>
       THEN NextPollProject
       ELSE UNCHANGED <<ppc, pproj>>
    /\ UNCHANGED <<remote, version, remoteChanges, etagMap, body, pfaults, desired,
                   lastPoll, ensureVars, filterVars,
                   bootVars,
                   svcVars>>

\* The consumer of the channel handles the event it received: it merges the
\* event into the projects it reads from the store, and when the merge changed
\* them it persists them and posts a pending status for the event, which the
\* remote attaches to the deployment.
Reconcile ==
    /\ cevent # NoEvent
    /\ LET r == ensureProject(desired, newProject(cevent))
           p == cevent.Name
           k == CHOOSE k \in 1..Len(remote[p]) : remote[p][k].ID = cevent.ID
       IN  /\ desired' = r.projects
           /\ IF r.updated
              THEN /\ remote' = [remote EXCEPT ![p][k].Statuses =
                                     Append(@, pendingState)]
                   /\ \E bump \in BOOLEAN :
                        version' = [version EXCEPT ![p] = IF bump THEN @ + 1 ELSE @]
              ELSE UNCHANGED <<remote, version>>
    /\ cevent' = NoEvent
    /\ UNCHANGED <<remoteChanges, etagMap, ppc, pproj, body, outbox, pfaults,
                   lastPoll, ensureVars, filterVars,
                   bootVars,
                   svcVars>>

\* Another user of the remote creates a deployment of a project; it becomes
\* the newest one and the list response of the project changes.
NewDeployment ==
    /\ remoteChanges < MaxRemoteChanges
    /\ \E p \in Range(projectList) :
         /\ Len(remote[p]) < MaxRecords
         /\ remote' = [remote EXCEPT ![p] =
                <<[ID |-> NextID,
                   Sha |-> IF Len(remote[p]) = 0 THEN "sha1" ELSE "sha2",
                   Statuses |-> <<>>]>> \o @]
         /\ version' = [version EXCEPT ![p] = @ + 1]
    /\ remoteChanges' = remoteChanges + 1
    /\ UNCHANGED <<etagMap, ppc, pproj, body, outbox, pfaults, cevent, desired,
                   lastPoll, ensureVars, filterVars,
                   bootVars,
                   svcVars>>

\* Another user of the remote posts a status for a deployment; whether that
\* changes the list response of the project is the remote's business.
AddStatus ==
    /\ remoteChanges < MaxRemoteChanges
    /\ \E p \in Range(projectList) : \E k \in 1..Len(remote[p]) : \E s \in States :
         /\ Len(remote[p][k].Statuses) < MaxStatuses
         /\ remote' = [remote EXCEPT ![p][k].Statuses = Append(@, s)]
         /\ \E bump \in BOOLEAN :
              version' = [version EXCEPT ![p] = IF bump THEN @ + 1 ELSE @]
    /\ remoteChanges' = remoteChanges + 1
    /\ UNCHANGED <<etagMap, ppc, pproj, body, outbox, pfaults, cevent, desired,
                   lastPoll, ensureVars, filterVars,
                   bootVars,
                   svcVars>>

\* The steps of the polling goroutine.
PollerStep ==
    \/ NewDeploymentEvents
    \/ Tick
    \/ FetchDeployments
    \/ FetchDeploymentStatuses
    \/ Send

PollNext == PollerStep \/ Reconcile \/ NewDeployment \/ AddStatus

SpecPoll == PollInit /\ [][PollNext]_vars

\* The scheduler runs the polling goroutine and the consumer whenever they
\* can take a step; the remote's other users act or not as they please.
FairSpecPoll == SpecPoll /\ WF_vars(PollerStep) /\ WF_vars(Reconcile)

-----------------------------------------------------------------------------
(* Properties of ensureProject (SpecEnsure) *)

\* C2 as stated: for every project list and every candidate with non-empty id,
\* name and ref, a second application of ensureProject with the same
\* candidate returns changed=false and the list the first application
\* returned.
C2_IdempotentOnEveryList ==
    (again /\ project \in ValidProject) => (updated = FALSE /\ projects = prev)

\* C2 amended: for every project list in which no two entries have the same
\* name and every candidate with non-empty id, name and ref, a second
\* application of ensureProject with the same candidate returns changed=false
\* and the list the first application returned.  (The first application
\* neither creates nor removes a duplicate name, so prev, its result, has
\* unique names exactly when the list it was given has.)
C2_IdempotentOnUniqueNames ==
    (again /\ project \in ValidProject /\ UniqueNames(prev))
        => (updated = FALSE /\ projects = prev)

\* C2 witness: the first application changed a list of unique names, and
\* the second application of the same valid candidate was made.
C2_Witness ==
    /\ again
    /\ calls = 2
    /\ project \in ValidProject
    /\ UniqueNames(seed)
    /\ Len(seed) = 2
    /\ prev # seed
    /\ projects = prev

\* C3: starting from the empty list, after any sequence of ensureProject
\* calls with arbitrary candidates no two entries of the list have the same
\* name.
C3_KeyUniqueness == seed = <<>> => UniqueNames(projects)

\* C3 witness: from the empty list, a candidate was appended and a later
\* candidate of the same name replaced it.
C3_Witness ==
    /\ seed = <<>>
    /\ calls = 2
    /\ Len(prev) = 1
    /\ Len(projects) = 1
    /\ updated
    /\ projects[1].Name = prev[1].Name
    /\ projects[1].Ref # prev[1].Ref

\* C4: the list ensureProject returns is at least as long as the list it was
\* given and has an entry for every name of that list; over a sequence of
\* calls the length never decreases and no name of the first list is lost.
C4_NoDeletion ==
    /\ Len(projects) >= Len(prev)
    /\ NameSet(prev) \subseteq NameSet(projects)
    /\ Len(projects) >= Len(seed)
    /\ NameSet(seed) \subseteq NameSet(projects)

\* C4 witness: a call replaced an entry of a two-entry list in place.
C4_Witness ==
    /\ calls = 2
    /\ updated
    /\ Len(prev) = 2
    /\ Len(projects) = 2
    /\ projects # prev

\* The positions of the input list of the last call that hold the candidate's
\* name with another ref, and those that hold it with the candidate's ref.
StaleAt == {i \in 1..Len(prev) : prev[i].Name = project.Name /\ prev[i].Ref # project.Ref}

SameRefAt == {i \in 1..Len(prev) : prev[i].Name = project.Name /\ prev[i].Ref = project.Ref}

\* C16: when the list holds an entry with the candidate's name and a different
\* ref, and the candidate has non-empty id, name and ref, ensureProject
\* returns changed=true and a list of the same length in which the entry at
\* the position of such an entry has the candidate's id and ref (and still the
\* name) and every other entry is unchanged and at its original position.
C16_ReplaceInPlace ==
    (calls > 0 /\ project \in ValidProject /\ StaleAt # {})
        => /\ updated
           /\ Len(projects) = Len(prev)
           /\ \E i \in StaleAt :
                /\ projects[i].ID = project.ID
                /\ projects[i].Ref = project.Ref
                /\ projects[i].Name = prev[i].Name
                /\ \A j \in 1..Len(prev) : j # i => projects[j] = prev[j]

\* C16 witness: the last call replaced the second of two entries: the first
\* entry has another name and stayed, the second had the candidate's name,
\* another ref and another id.
C16_Witness ==
    /\ calls > 0
    /\ project \in ValidProject
    /\ Len(prev) = 2
    /\ StaleAt = {2}
    /\ prev[2].ID # project.ID
    /\ projects[2] = project
    /\ projects[1] = prev[1]

\* C17, every list: when the list holds an entry with the candidate's name and
\* the candidate's ref, ensureProject returns the list unchanged and
\* changed=false, whatever the candidate's id is.
C17_SameRefNoOpOnEveryList ==
    (calls > 0 /\ SameRefAt # {}) => (projects = prev /\ ~updated)

\* C17: when a list without duplicate names holds an entry with the
\* candidate's name and the candidate's ref, ensureProject returns the list
\* unchanged and changed=false, whatever the candidate's id is.
C17_SameRefNoOp ==
    (calls > 0 /\ UniqueNames(prev) /\ SameRefAt # {})
        => (projects = prev /\ ~updated)

\* C17 witness: the last call had a valid candidate whose name and ref are in
\* a list without duplicate names, under another id.
C17_Witness ==
    /\ calls > 0
    /\ project \in ValidProject
    /\ UniqueNames(prev)
    /\ \E i \in SameRefAt : prev[i].ID # project.ID
    /\ projects = prev
    /\ ~updated

\* C18: for every project list, a candidate whose id, name or ref is empty is
\* rejected by ensureProject: the returned list equals the input list and
\* changed=false.
C18_MalformedRejected ==
    (calls > 0 /\ (project.ID = "" \/ project.Name = "" \/ project.Ref = ""))
        => (projects = prev /\ ~updated)

\* C18 witness: the last call had a candidate without id whose name is in the
\* list with another ref, so that only the rejection kept the list as it was.
C18_Witness ==
    /\ calls > 0
    /\ project.ID = ""
    /\ StaleAt # {}
    /\ projects = prev
    /\ ~updated

\* C19: when no entry of the list has the candidate's name and the candidate
\* has non-empty id, name and ref, ensureProject returns changed=true and the
\* input list with the candidate appended as the last entry, all earlier
\* entries unchanged.
C19_AppendWhenAbsent ==
    (calls > 0 /\ project \in ValidProject /\ project.Name \notin NameSet(prev))
        => (updated /\ projects = Append(prev, project))

\* C19 witness: the last call appended a valid candidate to a list that held
\* an entry of another name.
C19_Witness ==
    /\ calls > 0
    /\ project \in ValidProject
    /\ prev # <<>>
    /\ project.Name \notin NameSet(prev)
    /\ updated
    /\ projects = Append(prev, project)

-----------------------------------------------------------------------------
(* Properties of the completion filters (SpecFilter) *)

\* Every status of the history is pending (vacuously so for no status).
AllPending(statuses) == Range(statuses) \subseteq {pendingState}

\* out holds exactly the elements of in that satisfy Keep, in input order.
\* The id of a deployment is its place in the input.
KeepsExactly(in, out, Keep(_)) ==
    /\ \A k \in 1..Len(in) : (in[k] \in Range(out)) <=> Keep(in[k])
    /\ Range(out) \subseteq Range(in)
    /\ \A a, b \in 1..Len(out) : a < b => out[a].ID < out[b].ID

C21_LatestUnfiltered ==
    (filtered \in {"latest", "notFound", "panic"} /\ Len(deployments) > 0)
        => (filtered = "latest" /\ matches = <<deployments[1]>>)

-----------------------------------------------------------------------------
(* Properties of the boot sequence (Spec) *)

\* The decimal text of the ids the remote uses in this model.
IdText == [n \in EventIDs |-> IF n = 100 THEN "100" ELSE "101"]

\* The desired-state entry an event stands for.
EntryOf(e) == [ID |-> IdText[e.ID], Name |-> e.Name, Ref |-> e.Sha]

\* The handled events, the posted statuses and the stored entries of a project.
SeenFor(p) ==
    LET OfProject(x) == x.event.Name = p
    IN  SelectSeq(seen, OfProject)

PostedFor(p) ==
    LET OfProject(x) == x.Name = p
    IN  SelectSeq(posted, OfProject)

StoredFor(p) ==
    LET OfProject(x) == x.Name = p
    IN  SelectSeq(store.projects, OfProject)

\* No collaborator failed and nobody else wrote the store.
Undisturbed == faults = 0 /\ otherWrites = 0 /\ ~storeBroken

\* C1: with an initially empty desired state, no other writers and no
\* failures, once the bootstrap pass has seen the latest event (i1, r1) of a
\* project P and the continuous path has then delivered (i2, r2) for P with
\* r2 # r1, and that event is handled, the store holds exactly one entry for
\* P, (i2, P, r2), and the pending statuses posted for P are i1, then i2.
C1_EndToEnd ==
    \A p \in Range(ConfigProjects) :
        LET sp == SeenFor(p)
        IN  ( /\ Undisturbed
              /\ pc \in {"recv", "done"}
              /\ Len(sp) = 2
              /\ sp[1].phase = "bootstrap"
              /\ sp[2].phase = "continuous"
              /\ sp[1].event.Sha # sp[2].event.Sha )
            => /\ store.exists
               /\ StoredFor(p) = <<EntryOf(sp[2].event)>>
               /\ PostedFor(p) = <<sp[1].event, sp[2].event>>

\* C1 witness: project "a" was bootstrapped at (100, sha1), the stream then
\* delivered (101, sha2), and the loop waits for the next event.
C1_Witness ==
    /\ Undisturbed
    /\ pc = "recv"
    /\ SeenFor("a") = <<[phase |-> "bootstrap",
                         event |-> [ID |-> 100, Name |-> "a", Sha |-> "sha1"]],
                        [phase |-> "continuous",
                         event |-> [ID |-> 101, Name |-> "a", Sha |-> "sha2"]]>>
    /\ Len(PostedFor("a")) = 2

\* A step in which the reconciliation loop persists its in-memory object.
LoopPersists ==
    /\ pc \in {"ensure", "censure"}
    /\ pc' \in {"status", "cstatus"}

\* C5 as stated: every object the loop persists, in either pass, has an
\* entry for every project name in the store at the moment of the persist,
\* also when another writer changed the store after the loop's read.
C5_NeverReduced ==
    [][LoopPersists => NameSet(store.projects) \subseteq NameSet(store'.projects)]_vars

\* C5 amended: every object the loop persists, in either pass, has an entry
\* for every project name in the store at the moment of the persist, provided
\* no other writer changed the store between the loop's last read (or its
\* own last persist) and this persist.
C5_NeverReducedWithoutRace ==
    [][(LoopPersists /\ ~staleRead)
          => NameSet(store.projects) \subseteq NameSet(store'.projects)]_vars

\* C5 witness: another writer added its project, the steady-state pass read
\* the store after that and persisted an object that still has the project.
C5_Witness ==
    /\ pc = "cstatus"
    /\ otherWrites = 1
    /\ ~staleRead
    /\ Len(store.projects) = 2
    /\ ForeignProject \in Range(store.projects)
    /\ newProject(event) \in Range(store.projects)

C7_GetCalledRPlusOne ==
    storeBroken =>
        LET R == IF backOff = "stop" THEN 0 ELSE 3
        IN  /\ ensureCalled = 0
            /\ getCalled <= R + 1
            /\ pc \in {"exhausted", "done"} => getCalled = R + 1
            /\ pc \in {"boot", "get", "failed", "exhausted", "done"}

\* C7 witness: under the policy limited to 3 tries Boot has returned after
\* four calls of Get.
C7_Witness ==
    /\ storeBroken
    /\ backOff = "maxTries"
    /\ pc = "done"
    /\ getCalled = 4
    /\ ensureCalled = 0

\* The configured projects FetchLatest finds an event for, in configuration
\* order.
Bootstrappable ==
    LET HasEvent(p) == latest[p].found
    IN  SelectSeq(ConfigProjects, HasEvent)

\* C8: starting from an empty desired state, when FetchLatest answers
\* NotFound for some projects and with an event for the others, the attempt
\* does not abort, and after the bootstrap pass the store holds exactly one
\* entry per project that had an event, in configuration order, and no entry
\* for a project that had none.
C8_BootstrapPartial ==
    (Undisturbed /\ Delivered = 0)
        => /\ pc \notin {"failed", "exhausted"}
           /\ attempts <= 1
           /\ pc \in {"open", "recv", "done"}
                => store.projects =
                     [k \in 1..Len(Bootstrappable) |->
                        EntryOf(latest[Bootstrappable[k]].event)]

\* C8 witness: project "a" has no deployment, project "b" has one, and the
\* bootstrap pass has ended with only b's entry stored.
C8_Witness ==
    /\ Undisturbed
    /\ pc = "open"
    /\ ~latest["a"].found
    /\ latest["b"].found
    /\ Len(store.projects) = 1
    /\ store.projects[1].Name = "b"
    /\ attempts = 1

\* The pending statuses posted in the running attempt, as places in posted.
PostsOfAttempt == {k \in 1..Len(posted) : k > postedBefore}

\* C12: persist-then-notify.  In both passes every pending status posted in
\* an attempt is for an event whose (id, name, ref) is an entry of an object
\* that was persisted successfully earlier in the same attempt; and a step in
\* which the persist is pending or has failed posts nothing: the failure ends
\* the attempt before any status could be posted for the event.
C12_PersistThenNotify ==
    /\ [](\A k \in PostsOfAttempt : EntryOf(posted[k]) \in persisted)
    /\ [][(pc \in {"ensure", "censure", "failed"}) => posted' = posted]_vars

\* C12 witness: an attempt after a failed one has persisted and posted in
\* the steady-state pass, and a status was posted before that attempt too.
C12_Witness ==
    /\ attempts > 1
    /\ postedBefore > 0
    /\ PostsOfAttempt # {}
    /\ pc = "recv"
    /\ EntryOf(posted[Len(posted)]) \in persisted

\* C13 as stated: at every moment, over any number of failed and retried
\* attempts, at most one polling loop exists for the eventer.  (Every call of
\* FetchContinuously starts a polling loop, and a polling loop never ends.)
C13_AtMostOnePoller == pollers <= 1

\* C15: when the state store reports NotFound (or hands back a nil object)
\* on the read at the start of an attempt, the attempt does not abort: the
\* read ends no attempt and calls no exit, the attempt goes on to the
\* bootstrap pass with an empty in-memory desired state, and what the pass
\* then persists is written from that state.
C15_NotFoundIsNotFatal ==
    [][/\ (pc = "get" /\ ~store.exists /\ ~storeBroken /\ faults' = faults
             /\ getCalled' # getCalled)
            => /\ pc' = "latest"
               /\ pidx' = 1
               /\ TPO' = <<>>
               /\ exitCalls' = exitCalls
               /\ numTries' = numTries
       /\ (absentAtGet /\ pc = "ensure" /\ ensureCalled' # ensureCalled /\ store' # store)
            => /\ store'.exists
               /\ store'.projects = TPO
               /\ \A k \in 1..Len(TPO) : TPO[k].Name \in Range(ConfigProjects)]_vars

\* C15 witness: the first attempt failed; the store reported NotFound on the
\* read that began the second attempt, no other writer has touched the store,
\* and the bootstrap pass of the second attempt has persisted an entry and
\* reached the steady state.
C15_Witness ==
    /\ absentAtGet
    /\ attempts = 2
    /\ otherWrites = 0
    /\ store.exists
    /\ store.projects # <<>>
    /\ persisted # {}
    /\ pc = "recv"

\* C26: a NotFound outcome never ends an attempt with an error handed to the
\* retry envelope: neither NotFound from a fetch nor NotFound from a
\* state-store read, in the bootstrap pass or while handling an event in the
\* steady-state pass, aborts the attempt.
C26_NotFoundNeverAborts ==
    [][/\ (pc = "get" /\ ~store.exists /\ ~storeBroken /\ faults' = faults
             /\ getCalled' # getCalled) => pc' # "failed"
       /\ (pc = "latest" /\ ~latest[ConfigProjects[pidx]].found /\ faults' = faults
             /\ pc' # pc) => pc' # "failed"
       /\ (pc = "cget" /\ ~store.exists /\ faults' = faults
             /\ getCalled' # getCalled) => pc' # "failed"]_vars

\* The loop merges an event in this step: in the bootstrap pass the event
\* FetchLatest returned, into the in-memory projects; in the steady-state
\* pass the received event, into the projects just read from the store.
MergesAtBoot == pc = "latest" /\ seen' # seen

MergesForEvent == pc = "cget" /\ pc' \in {"recv", "censure"}

\* What C27 says short of failures: the persist is invoked for an event if
\* and only if the merge of the event changed the projects, and only then;
\* a status is posted only for the event at hand and only right after the
\* persist for it has succeeded.
C27_OnlyWhenChanged ==
    [][/\ MergesAtBoot => (pc' = "ensure" <=> TPO' # TPO)
       /\ MergesForEvent => (pc' = "censure" <=> TPO' # store.projects)
       /\ (pc' = "ensure" /\ pc # "ensure") => MergesAtBoot
       /\ (pc' = "censure" /\ pc # "censure") => MergesForEvent
       /\ (ensureCalled' # ensureCalled)
            => (pc \in {"ensure", "censure"} /\ ensureCalled' = ensureCalled + 1)
       /\ (pc' = "status" /\ pc # "status")
            => (pc = "ensure" /\ ensureCalled' # ensureCalled /\ store'.projects = TPO)
       /\ (pc' = "cstatus" /\ pc # "cstatus")
            => (pc = "censure" /\ ensureCalled' # ensureCalled /\ store'.projects = TPO)
       /\ (posted' # posted)
            => (pc \in {"status", "cstatus"} /\ posted' = Append(posted, event))]_vars

\* C27 as stated: in both passes the persist and the pending-status post are
\* invoked for an event if and only if merging that event returned
\* changed=true; every event whose merge changes the state causes one
\* persist followed by one status post.
C27_PersistAndPostIffChanged ==
    /\ C27_OnlyWhenChanged
    /\ [][/\ (pc = "ensure" /\ pc' # pc) => pc' = "status"
          /\ (pc = "censure" /\ pc' # pc) => pc' = "cstatus"]_vars

\* C27: in both passes the persist is invoked for an event if and only if
\* merging that event returned changed=true, and the pending-status post is
\* invoked if and only if that persist succeeded: an event whose merge leaves
\* the state unchanged causes no persist and no status post, and every event
\* whose merge changes the state causes one persist, followed by one status
\* post unless the persist fails, which ends the attempt.
C27_PersistIffChangedPostIfPersisted ==
    /\ C27_OnlyWhenChanged
    /\ [][/\ (pc = "ensure" /\ pc' # pc)
               => \/ pc' = "status"
                  \/ pc' = "failed" /\ store' = store
          /\ (pc = "censure" /\ pc' # pc)
               => \/ pc' = "cstatus"
                  \/ pc' = "failed" /\ store' = store]_vars

\* C27 witness: nothing failed; the bootstrap pass persisted and posted for
\* one event, and the steady-state pass has handled an event whose merge
\* changed nothing, so that there is still one persist and one post.
C27_Witness ==
    /\ Undisturbed
    /\ pc = "recv"
    /\ Len(seen) = 2
    /\ seen[2].phase = "continuous"
    /\ ensureCalled = 1
    /\ Len(posted) = 1
    /\ getCalled = 2

\* C28: for every event received in the steady-state pass, the state is read
\* from the store after the event is received and before anything is
\* written; the object persisted for that event is ensureProject applied to
\* the projects just read, so that what another writer had stored before the
\* read is kept in the persisted object.
C28_RereadBeforeWrite ==
    [][/\ (pc = "recv" /\ pc' = "cget")
            => (store' = store /\ posted' = posted /\ getCalled' = getCalled)
       /\ (pc = "cget" /\ pc' # pc)
            => /\ getCalled' = getCalled + 1
               /\ store' = store
               /\ posted' = posted
               /\ ensureCalled' = ensureCalled
       /\ MergesForEvent
            => /\ TPO' = ensureProject(store.projects, newProject(event)).projects
               /\ \A k \in 1..Len(store.projects) :
                      store.projects[k].Name # event.Name
                          => store.projects[k] \in Range(TPO')
       /\ (pc = "censure") => (TPO' = TPO /\ event' = event)
       /\ (pc = "censure" /\ pc' = "cstatus") => store'.projects = TPO]_vars

\* C28 witness: another writer stored its project, the steady-state pass then
\* read the store for an event, merged and persisted, and the stored object
\* holds the other writer's project beside the event's; nothing failed.
C28_Witness ==
    /\ pc = "recv"
    /\ faults = 0
    /\ otherWrites = 1
    /\ Delivered = 1
    /\ ~staleRead
    /\ ForeignProject \in Range(store.projects)
    /\ newProject(event) \in Range(store.projects)
    /\ event \in Range(posted)

\* A collaborator call of the loop fails in this step: a transient failure,
\* a store that is broken for good, or, in the steady-state pass, a read that
\* finds no object.
CallFails ==
    \/ faults' # faults
    \/ pc \in {"ensure", "censure"} /\ storeBroken
    \/ pc = "cget" /\ ~store.exists

\* The retry envelope takes the failed attempt: it starts the next attempt
\* or gives up; the loop takes no other step from a failed attempt.
EnvelopeTakesFailure ==
    (pc = "failed" /\ pc' # pc)
        => /\ \/ pc' = "get" /\ attempts' = attempts + 1 /\ numTries' = numTries + 1
              \/ pc' = "exhausted" /\ attempts' = attempts
           /\ seen' = seen
           /\ store' = store

\* C29: in the steady-state pass, if the state read, the persist or the
\* pending-status post fails for an event, the attempt ends with that error:
\* the failing step writes nothing, no further event is received in that
\* attempt and the failure reaches the retry envelope; a step that does not
\* fail does not end the attempt.
C29_SteadyStateFailureAborts ==
    [][/\ (pc \in {"cget", "censure", "cstatus"} /\ pc' # pc)
            => IF CallFails
               THEN /\ pc' = "failed"
                    /\ store' = store
                    /\ posted' = posted
                    /\ seen' = seen
               ELSE pc' # "failed"
       /\ EnvelopeTakesFailure]_vars

\* C29 witness: the first attempt opened the stream and received an event;
\* one call made for that event failed and the attempt has ended.
C29_Witness ==
    /\ pc = "failed"
    /\ attempts = 1
    /\ pollers = 1
    /\ Delivered = 1
    /\ faults = 1
    /\ store.exists

\* C30: in the bootstrap pass, an error other than NotFound from fetchLatest,
\* from the persist or from the status post for a project aborts the
\* attempt: the failing step writes nothing, so that what was persisted for
\* earlier projects stays in the store, no later project is fetched in that
\* attempt and the continuous stream is not opened.
C30_BootstrapFailureAborts ==
    [][/\ (pc \in {"latest", "ensure", "status"} /\ pc' # pc /\ CallFails)
            => /\ pc' = "failed"
               /\ store' = store
               /\ pidx' = pidx
               /\ seen' = seen
               /\ pollers' = pollers
       /\ (pc = "failed" /\ pc' # pc)
            => /\ pc' \in {"get", "exhausted"}
               /\ store' = store
               /\ pollers' = pollers
       /\ (pollers' # pollers) => (pc = "open" /\ pidx = Len(ConfigProjects))]_vars

\* C30 witness: the first attempt persisted and posted for the first project
\* and then failed at the second one; the stream was never opened and the
\* store still holds the first project's entry.
C30_Witness ==
    /\ pc = "failed"
    /\ attempts = 1
    /\ pidx = 2
    /\ pollers = 0
    /\ faults = 1
    /\ Len(posted) = 1
    /\ store.exists
    /\ \E k \in 1..Len(store.projects) : store.projects[k].Name = ConfigProjects[1]

\* The bootstrap pass is at a configured project for which the object loaded
\* at the start of the attempt already has an entry.  The entries the pass
\* itself adds have the names of earlier projects, so an entry found under
\* the current project's name was loaded.
AtExistingEntry ==
    /\ pc = "latest"
    /\ getProjectByName(TPO, ConfigProjects[pidx]).err = "nil"

\* C31: the bootstrap pass initialises only the projects missing from the
\* desired state loaded at the start of the attempt: at a project that has
\* an entry already, the entry is left unchanged and neither the persist nor
\* the status post is made for it.
C31_BootstrapOnlyMissing ==
    [][AtExistingEntry => (TPO' = TPO /\ pc' # "ensure")]_vars

\* C37: under fair scheduling, with a retry policy that permits retries and
\* finitely many failures of the remote, every event whose merge was
\* persisted eventually has its pending status posted, also when the first
\* post failed and the boot sequence was retried.
C37_EventuallyPosted ==
    \A e \in DeploymentEvent :
        (backOff = "maxTries" /\ pc \in {"status", "cstatus"} /\ event = e)
            ~> (e \in Range(posted))

\* How often an event was handed to the loop, by either pass, and how often
\* its pending status was posted.
DeliveriesOf(e) == Cardinality({k \in 1..Len(seen) : seen[k].event = e})

PostsOf(e) == Cardinality({k \in 1..Len(posted) : posted[k] = e})

\* The events that were handed to the loop.
DeliveredEvents == {seen[k].event : k \in 1..Len(seen)}

\* Every event of e's project that was handed to the loop is e itself.
OnlyDelivered(e) ==
    \A k \in 1..Len(seen) : seen[k].event.Name = e.Name => seen[k].event = e

\* The last event of its project that was handed to the loop is e.
LastDelivered(e) ==
    LET sp == SeenFor(e.Name)
    IN  Len(sp) > 0 /\ sp[Len(sp)].event = e

C39_StreamCloseEndsBoot ==
    [][/\ (pc = "recv" /\ pc' \notin {"recv", "cget"})
            => /\ pc' = "done"
               /\ attempts' = attempts
               /\ numTries' = numTries
               /\ exitCalls' = exitCalls
               /\ store' = store
               /\ posted' = posted
       /\ (pc = "done")
            => /\ pc' = "done"
               /\ attempts' = attempts
               /\ numTries' = numTries
               /\ exitCalls' = exitCalls
               /\ getCalled' = getCalled
               /\ ensureCalled' = ensureCalled
               /\ posted' = posted
               /\ pollers' = pollers]_vars

\* C39 witness: the first attempt opened the stream, handled an event, and
\* the stream was closed: Boot has returned after one attempt and the
\* callback was not invoked.
C39_Witness ==
    /\ pc = "done"
    /\ attempts = 1
    /\ numTries = 0
    /\ pollers = 1
    /\ Delivered = 1
    /\ faults = 0
    /\ exitCalls = <<>>

-----------------------------------------------------------------------------
(* Properties of the polling loop (SpecPoll) *)

\* The polling goroutine is at project p and makes its list request.
ListRequest(p) ==
    /\ ppc = "fetch"
    /\ projectList[pproj] = p
    /\ <<ppc, pproj, body>>' # <<ppc, pproj, body>>

\* C11: cache-token short-circuit.  If the list response of a project has not
\* changed since the previous successful poll of that project (a poll that
\* returned deployments), the next poll of the project sends the Etag that
\* poll stored as If-None-Match, returns no deployment at all, so none of
\* those the previous poll returned, and yields notFoundError whenever the
\* remote answers the request (a request that fails yields its own error).
C11_CacheTokenShortCircuit ==
    [][\A p \in Range(projectList) :
         (ListRequest(p) /\ lastPoll[p].outcome = "ok"
                         /\ version[p] = lastPoll[p].version)
            => /\ etagMap[p] = Etag(lastPoll[p].version)
               /\ ppc' # "statuses"
               /\ outbox' = <<>>
               /\ lastPoll'[p].outcome \in {"notFound", "error"}
               /\ (lastPoll'[p].outcome = "error" => pfaults' > pfaults)]_vars

\* C11 witness: the first poll of a project returned its one deployment (the
\* consumer has merged its event), the list has not changed since (it is
\* still the version the deployment's creation made, and no request failed),
\* and the next poll of the project has just yielded notFoundError: the
\* remote answered the stored Etag with 304.
C11_Witness ==
    /\ ppc = "fetch"
    /\ pproj = 2
    /\ pfaults = 0
    /\ Len(remote[projectList[1]]) = 1
    /\ version[projectList[1]] = 1
    /\ lastPoll[projectList[1]].outcome = "notFound"
    /\ lastPoll[projectList[1]].version = version[projectList[1]]
    /\ etagMap[projectList[1]] = Etag(version[projectList[1]])
    /\ remote[projectList[1]] # <<>>
    /\ \E k \in 1..Len(desired) : desired[k].Name = projectList[1]

\* C14: the continuous path never emits a DeploymentEvent for a record that
\* has at least one non-pending status at the time of the poll.  The
\* deployments a poll hands to the loop hold no record that is finished at the
\* remote when its statuses are fetched, and the loop puts on the channel
\* nothing but the deployments the poll handed to it, in their order.
C14_NoFinishedEmitted ==
    [][/\ (ppc = "statuses")
            => \A k \in 1..Len(outbox') :
                   outbox'[k].ID \notin RemoteFinished(projectList[pproj])
       /\ (cevent' # cevent /\ cevent' # NoEvent)
            => /\ outbox # <<>>
               /\ cevent' = ToDeploymentEvent(projectList[pproj], Head(outbox))
       /\ (outbox' # outbox)
            => \/ ppc = "statuses"
               \/ outbox # <<>> /\ outbox' = Tail(outbox)]_vars

\* C14 witness: the one deployment of the first project was finished at the
\* remote before any poll returned it; the poll that saw it (the list at its
\* current version, no request failed) returned nothing, and no event was
\* ever put on the channel.
C14_Witness ==
    /\ RemoteFinished(projectList[1]) # {}
    /\ lastPoll[projectList[1]].outcome = "notFound"
    /\ lastPoll[projectList[1]].version = version[projectList[1]]
    /\ etagMap[projectList[1]] = Etag(version[projectList[1]])
    /\ pfaults = 0
    /\ outbox = <<>>
    /\ cevent = NoEvent
    /\ desired = <<>>

\* The ids the remote can assign within the bound on its changes.
RemoteIDRange == 100..(100 + MaxRemoteChanges)

\* The newest deployment of project p at the remote is the one with this id
\* and is unstarted or in flight: it has no status but pending ones.
NewestOpen(p, id) ==
    /\ remote[p] # <<>>
    /\ remote[p][1].ID = id
    /\ isPending(remote[p][1])

\* The persisted desired state holds the newest deployment of project p: an
\* entry with the project's name, the deployment's id and its ref.
NewestHeld(p) ==
    /\ remote[p] # <<>>
    /\ \E k \in 1..Len(desired) :
         desired[k] = newProject(ToDeploymentEvent(p, remote[p][1]))

\* C20: under fair scheduling and finitely many failures, for every
\* configured project whose newest record is unstarted or in flight, the
\* persisted desired state eventually holds that record's id and ref for the
\* project (or the record stops being the newest open one of the project).
C20_EventuallyReflected ==
    \A p \in Range(projectList) : \A id \in RemoteIDRange :
        NewestOpen(p, id) ~> (NewestHeld(p) \/ ~NewestOpen(p, id))

\* C24: after the continuous poll is started, no fetch of any project is made
\* before the first full polling interval has elapsed: the goroutine that
\* NewDeploymentEvents starts goes to the wait for the ticker first, and the
\* first list request follows the first tick.
C24_NoFetchBeforeFirstTick ==
    [][(ppc = "start") => (ppc' \in {"start", "tick"})]_vars

\* C25: when the remote answers a conditional fetch with "not modified" (the
\* request carried the Etag of the list as it is now, and did not fail), the
\* cache token stored for that project is left unchanged and the fetch fails
\* with NotFound, returning no records: no status request follows and nothing
\* is handed to the loop.
C25_NotModifiedStoresNothing ==
    [][\A p \in Range(projectList) :
         (ListRequest(p) /\ etagMap[p] = Etag(version[p]) /\ pfaults' = pfaults)
            => /\ etagMap' = etagMap
               /\ lastPoll'[p].outcome = "notFound"
               /\ ppc' # "statuses"
               /\ body' = NoBody
               /\ outbox' = <<>>]_vars

\* C25 witness: the second project has one deployment, which a first poll
\* returned and the consumer merged; no request has failed; the next poll of
\* the project was answered with "not modified" and the round is over: the
\* stored token is still the one of the list as it is.
C25_Witness ==
    /\ ppc = "tick"
    /\ pfaults = 0
    /\ Len(remote[projectList[2]]) = 1
    /\ version[projectList[2]] = 1
    /\ lastPoll[projectList[2]].outcome = "notFound"
    /\ etagMap[projectList[2]] = Etag(1)
    /\ \E k \in 1..Len(desired) : desired[k].Name = projectList[2]

\* C32: in the polling loop a failed fetch for one project ends neither the
\* tick nor the loop: the failing step leaves nothing to send and goes on to
\* the next project of the same tick (after the last project, to the wait
\* for the ticker); an event is only ever put on the channel for a project
\* whose last fetch succeeded; and the wait for the ticker can always end,
\* so that later ticks run.
C32_FetchErrorSkipsProject ==
    /\ [](ppc = "tick" => ENABLED Tick)
    /\ [][/\ (ppc \in {"fetch", "statuses"} /\ pfaults' # pfaults)
              => /\ lastPoll'[projectList[pproj]].outcome = "error"
                 /\ outbox' = <<>>
                 /\ cevent' = cevent
                 /\ IF pproj < Len(projectList)
                    THEN ppc' = "fetch" /\ pproj' = pproj + 1
                    ELSE ppc' = "tick" /\ pproj' = 1
          /\ (cevent' # cevent /\ cevent' # NoEvent)
              => lastPoll[cevent'.Name].outcome = "ok"]_vars

\* C32 witness: the fetch of the first project failed in this tick and the
\* list of the second project has been fetched after it.
C32_Witness ==
    /\ pfaults = 1
    /\ lastPoll[projectList[1]].outcome = "error"
    /\ pproj = 2
    /\ ppc = "statuses"
    /\ Len(body.deployments) > 0

\* C33: in a conditional fetch, if the status-history request of a record
\* fails, the whole fetch fails with that error and returns no record:
\* nothing is left to send, the poller does not go on to the send, and the
\* channel gets no event of that fetch, whatever statuses were fetched before
\* the failing request.
C33_StatusErrorFailsFetch ==
    [][(ppc = "statuses" /\ pfaults' # pfaults)
          => /\ lastPoll'[projectList[pproj]] = PollLog("error", body.version)
             /\ outbox' = <<>>
             /\ ppc' # "send"
             /\ cevent' = cevent
             /\ desired' = desired]_vars

\* C33 witness: the first project has two deployments without statuses, its
\* list was fetched at the list's present version (the Etag is saved), the
\* status requests failed, and no event of the project has ever reached the
\* consumer.
C33_Witness ==
    /\ pfaults = 1
    /\ Len(remote[projectList[1]]) = 2
    /\ \A k \in 1..2 : remote[projectList[1]][k].Statuses = <<>>
    /\ version[projectList[1]] = 2
    /\ etagMap[projectList[1]] = Etag(2)
    /\ lastPoll[projectList[1]] = PollLog("error", 2)
    /\ outbox = <<>>
    /\ cevent = NoEvent
    /\ desired = <<>>

\* The ids of the records of the fetched list that have no status at the
\* remote when their status history is fetched.
OpenIDs(p) ==
    {body.deployments[k].ID : k \in {j \in 1..Len(body.deployments) :
        StatusesOf(p, body.deployments[j].ID) = <<>>}}

\* The position of a record in the list the remote gave.
PositionInBody(id) ==
    CHOOSE k \in 1..Len(body.deployments) : body.deployments[k].ID = id

\* C34: a conditional fetch whose requests all succeed and that ends with no
\* record left (the list is empty or the filter removed every record)
\* returns NotFound and nothing to send; otherwise it returns exactly the
\* remaining records, in the order the remote gave them, so that the first
\* one is the newest remaining one (the one with the highest id).
C34_EmptyIsNotFoundElseRemoteOrder ==
    [][(ppc = "statuses" /\ ppc' # ppc /\ pfaults' = pfaults)
          => LET p == projectList[pproj]
             IN  IF OpenIDs(p) = {}
                 THEN /\ lastPoll'[p] = PollLog("notFound", body.version)
                      /\ outbox' = <<>>
                      /\ ppc' # "send"
                 ELSE /\ lastPoll'[p] = PollLog("ok", body.version)
                      /\ ppc' = "send"
                      /\ {outbox'[k].ID : k \in 1..Len(outbox')} = OpenIDs(p)
                      /\ \A i, k \in 1..Len(outbox') :
                            i < k => /\ PositionInBody(outbox'[i].ID)
                                        < PositionInBody(outbox'[k].ID)
                                     /\ outbox'[i].ID > outbox'[k].ID]_vars

\* C34 witness: a fetch has returned two records: both are waiting to be
\* sent, the newer one first.
C34_Witness ==
    /\ ppc = "send"
    /\ lastPoll[projectList[pproj]].outcome = "ok"
    /\ Len(outbox) = 2
    /\ outbox[1].ID > outbox[2].ID

\* The poller moves on from the event it is sending: to the next event, the
\* next project or the wait for the next tick.
PollerLeavesSend ==
    /\ ppc = "send"
    /\ <<ppc, pproj, outbox>>' # <<ppc, pproj, outbox>>

\* C35: the event channel is a synchronous hand-off.  The poller moves on
\* from the event it is sending only in the step in which the consumer, which
\* holds no other event, receives exactly that event; while the poller is
\* sending, it makes no request; so at every moment at most one event has
\* left the poller and is not yet dealt with, and no event is overwritten.
C35_SynchronousHandOff ==
    [][/\ PollerLeavesSend
            => /\ cevent = NoEvent
               /\ cevent' = ToDeploymentEvent(projectList[pproj], Head(outbox))
               /\ outbox' = Tail(outbox)
       /\ (ppc = "send")
            => /\ etagMap' = etagMap
               /\ lastPoll' = lastPoll
               /\ body' = body
       /\ (cevent # NoEvent /\ cevent' # cevent) => cevent' = NoEvent]_vars

\* C35 witness: the poller is blocked in the send of an event while the
\* consumer still handles the event it received before.
C35_Witness ==
    /\ ppc = "send"
    /\ outbox # <<>>
    /\ cevent # NoEvent
    /\ ToDeploymentEvent(projectList[pproj], Head(outbox)) # cevent

\* C36: within one poll tick the projects are fetched in configuration
\* order, and all events of a project are sent, in the order its fetch
\* returned them, before the next project is fetched: a tick starts at the
\* first project; the poller leaves a project only with nothing left to send
\* and then goes to the project after it, or after the last one to the wait
\* for the ticker; every event put on the channel is the first one still to
\* be sent of the project the poller is at.
C36_ConfigurationOrder ==
    [][/\ (ppc \in {"start", "tick"} /\ ppc' # ppc)
            => (ppc' = "fetch" /\ pproj' = 1)
       /\ (ppc \in {"fetch", "statuses", "send"} /\ ppc' = "fetch"
                /\ <<ppc, pproj>>' # <<ppc, pproj>>)
            => (pproj' = pproj + 1 /\ pproj' <= Len(projectList))
       /\ (ppc \in {"fetch", "statuses", "send"} /\ ppc' = "tick")
            => pproj = Len(projectList)
       /\ (ppc \in {"statuses", "send"} /\ ppc' \in {"statuses", "send"})
            => pproj' = pproj
       /\ (ppc' \in {"fetch", "tick"}) => outbox' = <<>>
       /\ (cevent' # cevent /\ cevent' # NoEvent)
            => /\ ppc = "send"
               /\ cevent' = ToDeploymentEvent(projectList[pproj], Head(outbox))
               /\ outbox' = Tail(outbox)]_vars

\* C36 witness: in this tick two events of the first project were sent, the
\* consumer holds the second, older one, and the second project is about to be
\* fetched.
C36_Witness ==
    /\ ppc = "fetch"
    /\ pproj = 2
    /\ lastPoll[projectList[1]].outcome = "ok"
    /\ Len(desired) = 1
    /\ desired[1].Name = projectList[1]
    /\ cevent # NoEvent
    /\ cevent.Name = projectList[1]
    /\ cevent.ID < 101

-----------------------------------------------------------------------------
(* Properties of Boot (SpecOnce) *)

\* C22: for one informer instance, any number of Boot calls, sequential or
\* concurrent, runs the retry-wrapped boot sequence at most once: the second
\* and later calls start no further attempt.
C22_BootRunsOnce ==
    /\ sequences <= 1
    /\ \A c \in Callers : bpc[c] = "running" => onceM = c

\* C22 witness: every goroutine has called Boot, one of them twice, all
\* calls have returned, and the sequence was started once.
C22_Witness ==
    /\ sequences = 1
    /\ \A c \in Callers : bcalls[c] >= 1 /\ bpc[c] = "idle"
    /\ \E c \in Callers : bcalls[c] >= 2

-----------------------------------------------------------------------------
(* Properties of the constructor (SpecNew) *)

\* The Config lacks something New asks for.
Missing(c) ==
    \/ Len(c.Projects) = 0
    \/ \E k \in 1..Len(c.Projects) : c.Projects[k] = ""
    \/ c.Environment = ""
    \/ "nil" \in {c.BackOff, c.Eventer, c.Logger, c.TPO}

\* C23: constructing the reconciliation loop fails with InvalidConfig, and
\* returns no service, when the project list is empty or contains an
\* empty-string entry, or when the environment, the backoff policy, the
\* eventer, the logger or the state store is missing; with all of them valid
\* it succeeds.
C23_NewValidates ==
    newResult # NoResult =>
        /\ Missing(config)
              => (newResult.err = "invalidConfigError" /\ newResult.service = "nil")
        /\ ~Missing(config)
              => /\ newResult.err = "nil"
                 /\ newResult.service = "set"
                 /\ newResult.projects = config.Projects
                 /\ newResult.environment = config.Environment

\* C23 witness: New refused a Config whose only fault is an empty string as
\* the second project.
C23_Witness ==
    /\ newResult.err = "invalidConfigError"
    /\ config.BackOff = "set" /\ config.Eventer = "set"
    /\ config.Logger = "set" /\ config.TPO = "set"
    /\ config.Environment # ""
    /\ Len(config.Projects) = 2
    /\ config.Projects[1] # ""
    /\ config.Projects[2] = ""

====
